---- MODULE Spec2Model ----
(***************************************************************************)
(* Model of nntrainer's *.tflite interpreter                               *)
(* (nntrainer/compiler/tflite_interpreter.cpp):                            *)
(*   - BidirectionalIndexMap<T>  (addDataWhenNotFound, getIndex, getData)  *)
(*   - TfOpNode / buildOpNodes   (lowering of the sorted graph)            *)
(*   - TfOpIdxMap                (opcode, buffer and variable index maps)  *)
(*   - TfliteInterpreter::serialize and builder2file                       *)
(* Three specifications share the definitions:                             *)
(*   MapSpec  an index map driven through its three methods,               *)
(*   IdxSpec  buildOpNodes and the TfOpIdxMap constructor on graphs of     *)
(*            resolvable layers,                                           *)
(*   Spec     one whole serialize call, with the outcomes of the output    *)
(*            stream chosen by the environment.                            *)
(***************************************************************************)
EXTENDS Integers, Sequences, FiniteSets, TLC

VARIABLES
  imap,          \* MapSpec: the BidirectionalIndexMap under test
  calls,         \* MapSpec: history, the arguments of addDataWhenNotFound so far
  last,          \* MapSpec: history, the latest call and what it returned
  prev,          \* MapSpec: history, the call before the latest
  graph,         \* representation->getSorted(): the layers, in sorted order
  out0,          \* history: the destination file before the call
  pc,            \* position of the serialize call
  opNodes,       \* serialize: the local TfOpNodes
  idx,           \* TfOpIdxMap constructor: position of the node loop
  opcode_map,    \* TfOpIdxMap::maps, BidirectionalIndexMap<BuiltinOperator>
  buffer_map,    \* TfOpIdxMap::maps, BidirectionalIndexMap<const float *>
  variable_map,  \* TfOpIdxMap::maps, BidirectionalIndexMap<const Var_Grad *>
  fbb,           \* the FlatBufferBuilder
  os,            \* builder2file: state of the std::ofstream
  out,           \* the destination file
  result         \* how the call ended

mapVars == <<imap, calls, last, prev>>
serVars == <<graph, out0, pc, opNodes, idx, opcode_map, buffer_map,
             variable_map, fbb, os, out, result>>
vars == <<imap, calls, last, prev, graph, out0, pc, opNodes, idx, opcode_map,
          buffer_map, variable_map, fbb, os, out, result>>

Range(s) == {s[k] : k \in DOMAIN s}

----------------------------------------------------------------------------
(* BidirectionalIndexMap<T>                                                *)

\* A default-constructed map: both containers empty.
EmptyMap == [data2index |-> <<>>, index2data |-> <<>>]

\* What a call that returns normally, and one that throws, leave behind.
Returned(v) == [thrown |-> "none", what |-> "", value |-> <<v>>]
Thrown(exc, msg) == [thrown |-> exc, what |-> msg, value |-> <<>>]

\* A call's effect: the map after it and what the caller gets.
Effect(m, r) == [map |-> m, ret |-> r]

\* addDataWhenNotFound taking the index after push_back: indices from 1
Mut_add_IndexAfterPush(m, data) ==
  IF data \notin DOMAIN m.data2index
    THEN [data2index |-> m.data2index @@ (data :> Len(m.index2data) + 1),
          index2data |-> Append(m.index2data, data)]
    ELSE m

\* addDataWhenNotFound without the search: a value already held is added again
Mut_add_NoSearch(m, data) ==
  [data2index |-> [d \in DOMAIN m.data2index \cup {data} |->
                     IF d = data THEN Len(m.index2data) ELSE m.data2index[d]],
   index2data |-> Append(m.index2data, data)]

\* addDataWhenNotFound: std::vector indices start at 0, a TLA+ sequence's at
\* 1, so index2data[k] of the code is index2data[k + 1] here.  The sizes of
\* the model stay far below 2^32, where size_t -> unsigned int would wrap.
addDataWhenNotFound(m, data) ==
  IF data \notin DOMAIN m.data2index
    THEN [data2index |-> m.data2index @@ (data :> Len(m.index2data)),
          index2data |-> Append(m.index2data, data)]
    ELSE m

\* getIndex through data2index[key]: an absent key is inserted with index 0
Mut_getIndex_Subscript(m, key) ==
  IF key \notin DOMAIN m.data2index
    THEN Effect([m EXCEPT !.data2index = m.data2index @@ (key :> 0)],
                Returned(0))
    ELSE Effect(m, Returned(m.data2index[key]))

\* getIndex is const: the map it leaves is the map it found.  `return *search`
\* is read as returning the index stored in the entry found for the key
\* (search->second); the method is never instantiated in this file.
getIndex(m, key) ==
  IF key \notin DOMAIN m.data2index
    THEN Effect(m, Thrown("invalid_argument", "Cannot find index for key"))
    ELSE Effect(m, Returned(m.data2index[key]))

\* getData is const.
getData(m, index) ==
  IF index >= Len(m.index2data)
    THEN Effect(m, Thrown("invalid_argument", "Cannot find data for index"))
    ELSE Effect(m, Returned(m.index2data[index + 1]))

----------------------------------------------------------------------------
(* The graph handed to serialize: layers, Var_Grad objects and tensors      *)

\* FullyConnectedLayer::type
FullyConnectedLayer_type == "fully_connected"

\* layer.getType() of the layers a graph may hold: fully connected in two
\* spellings, and the dropout layer, for which setOpType has no operator
LayerTypes == {"fully_connected", "Fully_Connected", "dropout"}

ToLower(str) == IF str = "Fully_Connected" THEN "fully_connected" ELSE str

\* istrequal: equality of strings, case ignored
istrequal(a, b) == ToLower(a) = ToLower(b)

\* The Var_Grad objects of the layers, by identity: the inputs and outputs
\* (shared_ptr<Var_Grad>::get()) and the weights (&weight).
IOVars == {"x", "h"}
WeightVars == {"w1", "w2", "w3", "w4", "w5"}

\* variable->getVariableRef(): the tensor of each Var_Grad, as
\* uninitialized(), isAllocated() and getData().  w1 and w3 share one
\* buffer; w4 is allocated but uninitialized and w5 is not allocated.
getVariableRef(v) ==
  CASE v = "x"  -> [uninitialized |-> FALSE, allocated |-> TRUE, data |-> "bx"]
    [] v = "h"  -> [uninitialized |-> FALSE, allocated |-> TRUE, data |-> "bh"]
    [] v = "w1" -> [uninitialized |-> FALSE, allocated |-> TRUE, data |-> "b1"]
    [] v = "w2" -> [uninitialized |-> FALSE, allocated |-> TRUE, data |-> "b2"]
    [] v = "w3" -> [uninitialized |-> FALSE, allocated |-> TRUE, data |-> "b1"]
    [] v = "w4" -> [uninitialized |-> TRUE, allocated |-> TRUE, data |-> "b2"]
    [] v = "w5" -> [uninitialized |-> FALSE, allocated |-> FALSE,
                    data |-> "nullptr"]

SeqsOfLen(S, n) == [1..n -> S]

\* the layers of the given types that refer to s tensors in all
LayersWith(types, s) ==
  UNION {{[type |-> t, inputs |-> i, outputs |-> o, weights |-> w] :
            t \in types,
            i \in SeqsOfLen(IOVars, ab[1]),
            o \in SeqsOfLen(IOVars, ab[2]),
            w \in SeqsOfLen(WeightVars, s - ab[1] - ab[2])} :
         ab \in {p \in (0..s) \X (0..s) : p[1] + p[2] <= s}}

RECURSIVE Refs(_)
\* how many tensor references the layers (or nodes) hold in all
Refs(layers) ==
  IF layers = <<>> THEN 0
  ELSE Len(layers[1].inputs) + Len(layers[1].outputs)
         + Len(layers[1].weights) + Refs(Tail(layers))

----------------------------------------------------------------------------
(* TfOpNode and buildOpNodes                                               *)

\* setOpType without the throw: every type becomes FULLY_CONNECTED
Mut_setOpType_NoThrow(type) == Returned("FULLY_CONNECTED")

\* TfOpNode::setOpType(const std::string &)
setOpType(type) ==
  IF istrequal(type, FullyConnectedLayer_type)
    THEN Returned("FULLY_CONNECTED")
    ELSE Thrown("invalid_argument", "not supported type")

\* TfOpNode::TfOpNode(const Layer &): the references are copied, then the
\* type is resolved; a throw leaves no node.
TfOpNode(layer) ==
  LET op == setOpType(layer.type)
  IN  IF op.thrown # "none" THEN op
      ELSE Returned([inputs |-> layer.inputs, outputs |-> layer.outputs,
                     weights |-> layer.weights, op_type |-> op.value[1]])

RECURSIVE emplaceFrom(_, _, _)
\* the loop of buildOpNodes from layer k on, nodes being those built so far
emplaceFrom(layers, k, nodes) ==
  IF k > Len(layers) THEN Returned(nodes)
  ELSE LET n == TfOpNode(layers[k])
       IN  IF n.thrown # "none" THEN n
           ELSE emplaceFrom(layers, k + 1, Append(nodes, n.value[1]))

buildOpNodes(representation) == emplaceFrom(representation, 1, <<>>)

----------------------------------------------------------------------------
(* TfOpIdxMap                                                              *)

\* the address of TfOpIdxMap::empty_buffer, no tensor's data
empty_buffer == "empty_buffer"

\* the constructor without the empty buffer
Mut_put_empty_buffer_Skip(m) == m

\* buffer_map.addDataWhenNotFound(empty_buffer), "put empty buffer to first"
put_empty_buffer(m) == addDataWhenNotFound(m, empty_buffer)

update_opcode(m, opcode) == addDataWhenNotFound(m, opcode)

\* update_buffers testing isAllocated() alone
RECURSIVE Mut_update_buffers_AnyAllocated(_, _)
Mut_update_buffers_AnyAllocated(m, variables) ==
  IF variables = <<>> THEN m
  ELSE LET t == getVariableRef(variables[1])
       IN  Mut_update_buffers_AnyAllocated(
             IF t.allocated THEN addDataWhenNotFound(m, t.data) ELSE m,
             Tail(variables))

RECURSIVE update_buffers(_, _)
update_buffers(m, variables) ==
  IF variables = <<>> THEN m
  ELSE LET t == getVariableRef(variables[1])
       IN  update_buffers(
             IF ~t.uninitialized /\ t.allocated
               THEN addDataWhenNotFound(m, t.data) ELSE m,
             Tail(variables))

RECURSIVE update_variables(_, _)
update_variables(m, variables) ==
  IF variables = <<>> THEN m
  ELSE update_variables(addDataWhenNotFound(m, variables[1]),
                        Tail(variables))

\* the loop body with the outputs taken before the inputs
Mut_visit_OutputsFirst(maps, op_node) ==
  [opcode   |-> update_opcode(maps.opcode, op_node.op_type),
   variable |-> update_variables(
                  update_variables(
                    update_variables(maps.variable, op_node.outputs),
                    op_node.inputs),
                  op_node.weights),
   buffer   |-> update_buffers(maps.buffer, op_node.weights)]

\* the body of the constructor's loop over the nodes
visit(maps, op_node) ==
  [opcode   |-> update_opcode(maps.opcode, op_node.op_type),
   variable |-> update_variables(
                  update_variables(
                    update_variables(maps.variable, op_node.inputs),
                    op_node.outputs),
                  op_node.weights),
   buffer   |-> update_buffers(maps.buffer, op_node.weights)]

----------------------------------------------------------------------------
(* The flatbuffer, the section builders and the destination file           *)

\* a default-constructed flatbuffers::FlatBufferBuilder
FlatBufferBuilder == [table |-> <<>>, finished |-> FALSE, identifier |-> ""]

\* flatbuffers::Offset<>(): the offset of nothing
NullOffset == 0

\* the three section builders: "NYI", each returns the offset of nothing and
\* leaves the builder as it was
buildBuffers(map, b) == Effect(b, Returned(NullOffset))
buildOperatorCodes(map, b) == Effect(b, Returned(NullOffset))
buildSubGraph(nodes, map, b) == Effect(b, Returned(NullOffset))

\* WILL(x) expands to `;`: the statement in it is not compiled
WILL(b, field, offset) == b

Field(name, v) == [field |-> name, value |-> <<v>>]

\* model_builder.add_version / add_description
add_field(b, name, v) == [b EXCEPT !.table = Append(@, Field(name, v))]

SchemaVersion == 3
ModelIdentifier == "TFL3"

\* fbb.Finish(model, tflite::ModelIdentifier())
Finish(b, id) == [b EXCEPT !.finished = TRUE, !.identifier = id]

\* builder.GetBufferPointer() over builder.GetSize(): the identifier, then
\* the fields of the root table
GetBuffer(b) == <<Field("file_identifier", b.identifier)>> \o b.table

\* tflite::VerifyModelBuffer: a finished buffer that carries the identifier
VerifyModelBuffer(buf) ==
  /\ buf # <<>>
  /\ buf[1] = Field("file_identifier", ModelIdentifier)

\* the destination: absent, or holding what an earlier writer left
NoFile == [exists |-> FALSE, data |-> <<>>]
OldFile == [exists |-> TRUE, data |-> <<Field("previous", "contents")>>]

NotReturned == [thrown |-> "none", what |-> "running", value |-> <<>>]
ReturnedVoid == [thrown |-> "none", what |-> "", value |-> <<>>]

----------------------------------------------------------------------------
(* MapSpec: one BidirectionalIndexMap and its callers                      *)

NumValues == 3
MaxCalls == 4
Values == 1..NumValues
\* indices a caller may ask for: every valid one and some past the end
Indices == 0..(NumValues + 1)

NoCall == [op |-> "none", arg |-> 0, found |-> FALSE, ret |-> Returned(0)]

\* the serialize call, not started: MapSpec leaves it so
SerIdle ==
  /\ graph = <<>>
  /\ out0 = NoFile
  /\ pc = "idle"
  /\ opNodes = <<>>
  /\ idx = 0
  /\ opcode_map = EmptyMap
  /\ buffer_map = EmptyMap
  /\ variable_map = EmptyMap
  /\ fbb = FlatBufferBuilder
  /\ os = "none"
  /\ out = out0
  /\ result = NotReturned

MapInit ==
  /\ imap = EmptyMap
  /\ calls = <<>>
  /\ last = NoCall
  /\ prev = NoCall
  /\ SerIdle

Add(v) ==
  /\ Len(calls) < MaxCalls
  /\ imap' = addDataWhenNotFound(imap, v)
  /\ calls' = Append(calls, v)
  /\ prev' = last
  /\ last' = [op |-> "addDataWhenNotFound", arg |-> v,
              found |-> v \in DOMAIN imap.data2index, ret |-> Returned(0)]
  /\ UNCHANGED serVars

GetIndex(k) ==
  /\ imap' = getIndex(imap, k).map
  /\ prev' = last
  /\ last' = [op |-> "getIndex", arg |-> k,
              found |-> k \in DOMAIN imap.data2index,
              ret |-> getIndex(imap, k).ret]
  /\ UNCHANGED <<calls, serVars>>

GetData(n) ==
  /\ imap' = getData(imap, n).map
  /\ prev' = last
  /\ last' = [op |-> "getData", arg |-> n,
              found |-> n < Len(imap.index2data),
              ret |-> getData(imap, n).ret]
  /\ UNCHANGED <<calls, serVars>>

MapNext ==
  \/ \E v \in Values : Add(v)
  \/ \E k \in Values : GetIndex(k)
  \/ \E n \in Indices : GetData(n)

MapSpec == MapInit /\ [][MapNext]_vars

----------------------------------------------------------------------------
(* Claims about the index map, checked under MapSpec                       *)

\* position of the first occurrence of v in s
FirstPos(s, v) == CHOOSE k \in DOMAIN s :
                    s[k] = v /\ \A j \in 1..(k - 1) : s[j] # v
\* how many distinct values occur in s before v first does
RankIn(s, v) == Cardinality({s[j] : j \in 1..(FirstPos(s, v) - 1)})
\* how many distinct values were added before v first was
Rank(v) == RankIn(calls, v)

C5_ReinsertUnchanged ==
  [][\A v \in DOMAIN imap.data2index :
       calls' = Append(calls, v) => imap' = imap]_vars

\* the value added first is added again to a map that holds two values
C5_Witness ==
  /\ last.op = "addDataWhenNotFound"
  /\ last.found
  /\ Len(imap.index2data) >= 2
  /\ last.arg = imap.index2data[1]

\* C6: getIndex of a value never added throws "Cannot find index for key",
\* getData of an index >= the size throws "Cannot find data for index";
\* neither returns a value and neither changes the map.
C6_AbsentQueriesThrow ==
  [][/\ (last'.op = "getIndex" /\ last'.arg \notin Range(calls))
          => /\ last'.ret = Thrown("invalid_argument",
                                   "Cannot find index for key")
             /\ imap' = imap
     /\ (last'.op = "getData" /\ last'.arg >= Cardinality(Range(calls)))
          => /\ last'.ret = Thrown("invalid_argument",
                                   "Cannot find data for index")
             /\ imap' = imap]_vars

\* on a map of two values: getData of the size, then getIndex of a value
\* never added, both thrown
C6_Witness ==
  /\ Len(imap.index2data) = 2
  /\ prev.op = "getData" /\ prev.arg = 2 /\ prev.ret.thrown = "invalid_argument"
  /\ last.op = "getIndex" /\ last.arg \notin Range(calls)
  /\ last.ret.thrown = "invalid_argument"

----------------------------------------------------------------------------
(* Spec and IdxSpec: TfliteInterpreter::serialize(representation, out)     *)

MaxNodes == 2     \* layers of a graph
MaxRefs == 3      \* IdxSpec: tensor references of a graph, all layers together
MaxSerRefs == 1   \* Spec: the same

\* the index map of MapSpec, which serialize does not use
MapIdle ==
  /\ imap = EmptyMap
  /\ calls = <<>>
  /\ last = NoCall
  /\ prev = NoCall

SerStart ==
  /\ graph = <<>>
  /\ pc = "construct"
  /\ opNodes = <<>>
  /\ idx = 0
  /\ opcode_map = EmptyMap
  /\ buffer_map = EmptyMap
  /\ variable_map = EmptyMap
  /\ fbb = FlatBufferBuilder
  /\ os = "none"
  /\ out = out0
  /\ result = NotReturned

\* The caller's graph gets one more layer, last in sorted order.
AddLayer(types, budget) ==
  /\ pc = "construct"
  /\ Len(graph) < MaxNodes
  /\ \E s \in 0..(budget - Refs(graph)) :
       \E layer \in LayersWith(types, s) : graph' = Append(graph, layer)
  /\ UNCHANGED <<out0, pc, opNodes, idx, opcode_map, buffer_map,
                 variable_map, fbb, os, out, result, mapVars>>

IdxAddLayer == AddLayer({FullyConnectedLayer_type}, MaxRefs)
SerAddLayer == AddLayer(LayerTypes, MaxSerRefs)

\* serialize is called: auto opNodes = buildOpNodes(representation); a throw
\* leaves serialize at once
BuildOpNodes ==
  /\ pc = "construct"
  /\ LET r == buildOpNodes(graph)
     IN  IF r.thrown # "none"
           THEN /\ result' = r
                /\ pc' = "done"
                /\ UNCHANGED opNodes
           ELSE /\ opNodes' = r.value[1]
                /\ pc' = "TfOpIdxMap"
                /\ UNCHANGED result
  /\ UNCHANGED <<graph, out0, idx, opcode_map, buffer_map, variable_map,
                 fbb, os, out, mapVars>>

\* TfOpIdxMap map(opNodes), up to its loop
IdxBegin ==
  /\ pc = "TfOpIdxMap"
  /\ buffer_map' = put_empty_buffer(buffer_map)
  /\ idx' = 1
  /\ pc' = IF opNodes = <<>> THEN "build" ELSE "visit"
  /\ UNCHANGED <<graph, out0, opNodes, opcode_map, variable_map, fbb, os,
                 out, result, mapVars>>

\* one turn of the loop
IdxVisit ==
  /\ pc = "visit"
  /\ LET m == visit([opcode |-> opcode_map, variable |-> variable_map,
                     buffer |-> buffer_map], opNodes[idx])
     IN  /\ opcode_map' = m.opcode
         /\ variable_map' = m.variable
         /\ buffer_map' = m.buffer
  /\ idx' = idx + 1
  /\ pc' = IF idx = Len(opNodes) THEN "build" ELSE "visit"
  /\ UNCHANGED <<graph, out0, opNodes, fbb, os, out, result, mapVars>>

TfOpIdxMapOf == [opcode |-> opcode_map, variable |-> variable_map,
                 buffer |-> buffer_map]

\* the three section builders, the description, the ModelBuilder and Finish
Assemble ==
  /\ pc = "build"
  /\ LET opcodes  == buildOperatorCodes(TfOpIdxMapOf, fbb)
         buffers  == buildBuffers(TfOpIdxMapOf, opcodes.map)
         subgraph == buildSubGraph(opNodes, TfOpIdxMapOf, buffers.map)
         b0 == subgraph.map
         b1 == WILL(b0, "operator_codes", opcodes.ret)
         b2 == WILL(b1, "buffers", buffers.ret)
         b3 == WILL(b2, "subgraphs", subgraph.ret)
         b4 == add_field(b3, "version", SchemaVersion)
         b5 == add_field(b4, "description",
                         "This file is generated from NNTrainer")
     IN  fbb' = Finish(b5, ModelIdentifier)
  /\ pc' = "verify"
  /\ UNCHANGED <<graph, out0, opNodes, idx, opcode_map, buffer_map,
                 variable_map, os, out, result, mapVars>>

\* builder2file: the verifier
Verify ==
  /\ pc = "verify"
  /\ IF ~VerifyModelBuffer(GetBuffer(fbb))
       THEN /\ result' = Thrown("invalid_argument",
                                "Verifying serialized model failed")
            /\ pc' = "done"
       ELSE /\ pc' = "open"
            /\ UNCHANGED result
  /\ UNCHANGED <<graph, out0, opNodes, idx, opcode_map, buffer_map,
                 variable_map, fbb, os, out, mapVars>>

\* std::ofstream os(out, binary) opens: the file is created, or cut to
\* nothing
OpenGood ==
  /\ pc = "open"
  /\ os' = "good"
  /\ out' = [exists |-> TRUE, data |-> <<>>]
  /\ pc' = "write"
  /\ UNCHANGED <<graph, out0, opNodes, idx, opcode_map, buffer_map,
                 variable_map, fbb, result, mapVars>>

\* the stream does not open: !os.good() throws
OpenFail ==
  /\ pc = "open"
  /\ os' = "fail"
  /\ result' = Thrown("invalid_argument", "failed to open")
  /\ pc' = "done"
  /\ UNCHANGED <<graph, out0, opNodes, idx, opcode_map, buffer_map,
                 variable_map, fbb, out, mapVars>>

\* os.write(...) stores every byte
WriteAll ==
  /\ pc = "write"
  /\ out' = [out EXCEPT !.data = GetBuffer(fbb)]
  /\ pc' = "close"
  /\ UNCHANGED <<graph, out0, opNodes, idx, opcode_map, buffer_map,
                 variable_map, fbb, os, result, mapVars>>

\* os.write(...) fails after k parts of the buffer: the stream goes bad and
\* throws nothing (no exceptions() mask is set)
WriteShort ==
  /\ pc = "write"
  /\ \E k \in 0..(Len(GetBuffer(fbb)) - 1) :
       out' = [out EXCEPT !.data = SubSeq(GetBuffer(fbb), 1, k)]
  /\ os' = "bad"
  /\ pc' = "close"
  /\ UNCHANGED <<graph, out0, opNodes, idx, opcode_map, buffer_map,
                 variable_map, fbb, result, mapVars>>

\* os.close(), which the code does not test either; serialize returns
Close ==
  /\ pc = "close"
  /\ result' = ReturnedVoid
  /\ pc' = "done"
  /\ UNCHANGED <<graph, out0, opNodes, idx, opcode_map, buffer_map,
                 variable_map, fbb, os, out, mapVars>>

Init ==
  /\ MapIdle
  /\ out0 \in {NoFile, OldFile}
  /\ SerStart

Next ==
  \/ SerAddLayer
  \/ BuildOpNodes
  \/ IdxBegin
  \/ IdxVisit
  \/ Assemble
  \/ Verify
  \/ OpenGood
  \/ OpenFail
  \/ WriteAll
  \/ WriteShort
  \/ Close

Spec == Init /\ [][Next]_vars

IdxInit ==
  /\ MapIdle
  /\ out0 = NoFile
  /\ SerStart

IdxNext ==
  \/ IdxAddLayer
  \/ BuildOpNodes
  \/ IdxBegin
  \/ IdxVisit

IdxSpec == IdxInit /\ [][IdxNext]_vars

----------------------------------------------------------------------------
(* Claims about the index builder, checked under IdxSpec                   *)

RECURSIVE Discovery(_)
\* the tensor references of the nodes in the order the claim gives: node by
\* node, in each its inputs, then its outputs, then its weights
Discovery(nodes) ==
  IF nodes = <<>> THEN <<>>
  ELSE LET n == nodes[Len(nodes)]
       IN  Discovery(SubSeq(nodes, 1, Len(nodes) - 1))
             \o n.inputs \o n.outputs \o n.weights

RECURSIVE WeightsOf(_)
\* the weight references of the nodes, in node order
WeightsOf(nodes) ==
  IF nodes = <<>> THEN <<>>
  ELSE WeightsOf(SubSeq(nodes, 1, Len(nodes) - 1))
         \o nodes[Len(nodes)].weights

IsLive(w) == ~getVariableRef(w).uninitialized /\ getVariableRef(w).allocated

\* the raw buffers of the initialized and allocated weights, in node order
LiveBuffers(nodes) ==
  LET live == SelectSeq(WeightsOf(nodes), IsLive)
  IN  [k \in DOMAIN live |-> getVariableRef(live[k]).data]

\* the operator kinds of the nodes, in node order
Kinds(nodes) == [k \in DOMAIN nodes |-> nodes[k].op_type]

\* C7: for every node sequence, the empty one too, the buffer map holds the
\* "no buffer" sentinel at index 0 from before the first node is visited on,
\* and with no initialized and allocated weight among the nodes the finished
\* buffer map has size 1.
C7_SentinelFirst ==
  pc \in {"visit", "build"} =>
    /\ getData(buffer_map, 0).ret = Returned(empty_buffer)
    /\ getIndex(buffer_map, empty_buffer).ret = Returned(0)
    /\ (pc = "visit" /\ idx = 1) => buffer_map.index2data = <<empty_buffer>>
    /\ (pc = "build" /\ \A w \in Range(WeightsOf(opNodes)) : ~IsLive(w))
         => Len(buffer_map.index2data) = 1

\* two nodes with weights, none of them initialized and allocated: the
\* finished buffer map holds the sentinel alone
C7_Witness ==
  /\ pc = "build"
  /\ Len(opNodes) = 2
  /\ opNodes[1].weights = <<"w4">>
  /\ opNodes[2].weights = <<"w5">>
  /\ buffer_map.index2data = <<empty_buffer>>

\* C9: when the builder has run, the tensor map gives each tensor reference
\* its rank in first-discovery order (nodes in order; inputs, outputs, then
\* weights in each), its size is the number of distinct references, and the
\* opcode map holds the distinct operator kinds in order of first occurrence.
C9_DiscoveryOrder ==
  pc = "build" =>
    /\ \A t \in Range(Discovery(opNodes)) :
         getIndex(variable_map, t).ret = Returned(RankIn(Discovery(opNodes), t))
    /\ Len(variable_map.index2data) = Cardinality(Range(Discovery(opNodes)))
    /\ DOMAIN variable_map.data2index = Range(Discovery(opNodes))
    /\ \A o \in Range(Kinds(opNodes)) :
         getIndex(opcode_map, o).ret = Returned(RankIn(Kinds(opNodes), o))
    /\ Len(opcode_map.index2data) = Cardinality(Range(Kinds(opNodes)))

\* the first node reads x and writes h, the second reads h again: three
\* references, two tensors, in the order x, h
C9_Witness ==
  /\ pc = "build"
  /\ Len(opNodes) = 2
  /\ opNodes[1].inputs = <<"x">> /\ opNodes[1].outputs = <<"h">>
  /\ opNodes[2].inputs = <<"h">>
  /\ variable_map.index2data = <<"x", "h">>
  /\ getIndex(variable_map, "h").ret = Returned(1)
  /\ opcode_map.index2data = <<"FULLY_CONNECTED">>

\* C10: when the builder has run, the buffer map's entries from index 1 on
\* are the distinct raw buffers of the weights that are initialized and
\* allocated, in first-seen order; other weights, inputs and outputs add
\* none, and weights sharing a buffer add one entry.
C10_LiveWeightBuffers ==
  pc = "build" =>
    /\ \A b \in Range(LiveBuffers(opNodes)) :
         getIndex(buffer_map, b).ret
           = Returned(1 + RankIn(LiveBuffers(opNodes), b))
    /\ Len(buffer_map.index2data)
         = 1 + Cardinality(Range(LiveBuffers(opNodes)))
    /\ DOMAIN buffer_map.data2index
         = {empty_buffer} \cup Range(LiveBuffers(opNodes))

\* w4 (uninitialized, on buffer b2) adds nothing; w1 and w3 share b1 and
\* add one entry
C10_Witness ==
  /\ pc = "build"
  /\ Len(opNodes) = 2
  /\ opNodes[1].weights = <<"w4", "w1">>
  /\ opNodes[2].weights = <<"w3">>
  /\ buffer_map.index2data = <<empty_buffer, "b1">>

----------------------------------------------------------------------------
(* Claims about serialize, checked under Spec                              *)

\* the spec's closed mapping: fully connected, in any letter case
Resolvable(type) == type \in {"fully_connected", "Fully_Connected"}

\* C1: serialize ends either returning, with the complete verified buffer in
\* the destination, or throwing, with the destination as it was before.
C1_AllOrNothing ==
  pc = "done" =>
    \/ /\ result = ReturnedVoid
       /\ out = [exists |-> TRUE, data |-> GetBuffer(fbb)]
       /\ VerifyModelBuffer(out.data)
    \/ /\ result.thrown # "none"
       /\ out = out0

\* C2: a graph with a layer of a type that has no operator makes serialize
\* throw "not supported type" out of buildOpNodes: no index map is built, no
\* section, the stream is never opened and the destination stays as it was.
C2_UnsupportedFailsFirst ==
  (pc # "construct" /\ \E k \in DOMAIN graph : ~Resolvable(graph[k].type)) =>
    /\ pc = "done"
    /\ result = Thrown("invalid_argument", "not supported type")
    /\ opNodes = <<>>
    /\ opcode_map = EmptyMap /\ buffer_map = EmptyMap
    /\ variable_map = EmptyMap
    /\ fbb = FlatBufferBuilder
    /\ os = "none"
    /\ out = out0

\* a fully connected layer, then a dropout layer, and a destination that
\* held something before the call
C2_Witness ==
  /\ pc = "done"
  /\ Len(graph) = 2
  /\ graph[1].type = "Fully_Connected"
  /\ graph[2].type = "dropout"
  /\ result.what = "not supported type"
  /\ out0 = OldFile /\ out = OldFile

\* the vector a container holds under a field, empty when it has none
VectorOf(data, name) ==
  IF \E k \in DOMAIN data : data[k].field = name
    THEN data[CHOOSE k \in DOMAIN data : data[k].field = name].value[1]
    ELSE <<>>

\* the operator kinds that stand for the layers, by the spec's mapping
KindsOfGraph == {ToLower(graph[k].type) : k \in DOMAIN graph}

\* C3: on a graph of resolvable layers (and a stream that opens and writes)
\* serialize returns and the container has one operator-kind entry for each
\* distinct kind and one subgraph operator for each node.
C3_TablesMatchGraph ==
  (/\ pc = "done"
   /\ \A k \in DOMAIN graph : Resolvable(graph[k].type)
   /\ os = "good") =>
    /\ result = ReturnedVoid
    /\ Len(VectorOf(out.data, "operator_codes")) = Cardinality(KindsOfGraph)
    /\ Len(VectorOf(out.data, "subgraphs")) = Len(graph)

====
